---- MODULE Spec2Model ----
(***************************************************************************)
(* A model of nanonis_reader/util.py: the file resolver / loader           *)
(* NanonisData, the parameter extractors and the batch report builder      *)
(* DataToPPT.                                                              *)
(*                                                                         *)
(* Python strings are sequences of one-character strings, so that zfill,   *)
(* split, splitext, endswith, os.path.join and the glob match are computed *)
(* character by character as the library computes them.  None and the      *)
(* empty string are both the empty sequence wherever the code only tests   *)
(* truthiness (`if keyword:`).                                             *)
(***************************************************************************)
EXTENDS Integers, Sequences, FiniteSets, TLC

VARIABLES
    dir,              \* the base directory: its entries in os.scandir order
    base_path,        \* DataToPPT.base_path / NanonisData's base_path
    keyword,          \* the name filter (<<>> when None or "")
    start_num,        \* DataToPPT.start_num
    end_num,          \* DataToPPT.end_num
    output_filename,  \* DataToPPT.output_filename
    file_number,      \* NanonisData's file_number argument (loader runs)
    i,                \* the loop variable of generate_ppt
    pc,               \* where the running operation is
    prs,              \* the presentation: its slides, in order
    attempted,        \* the indices the loop has tried to load, in order
    log,              \* the lines printed so far
    calls,            \* the parser invocations so far: [ext, path]
    saved,            \* the prs.save calls so far: [path, slides]
    exc,              \* the exception that left the operation ("none" if none)
    loaded,           \* the result of the last NanonisData construction
    arg,              \* the argument of a parameter-extraction run
    ret               \* the value that run returned

vars == << dir, base_path, keyword, start_num, end_num, output_filename,
           file_number, i, pc, prs, attempted, log, calls, saved, exc,
           loaded, arg, ret >>

-----------------------------------------------------------------------------
(* Strings *)

Digits == << "0", "1", "2", "3", "4", "5", "6", "7", "8", "9" >>

IsDigit(c) == \E k \in 1..10 : Digits[k] = c

\* str(n) for an int n
RECURSIVE NatToStr(_)
NatToStr(n) == IF n < 10 THEN << Digits[n + 1] >>
               ELSE NatToStr(n \div 10) \o << Digits[(n % 10) + 1] >>

IntToStr(n) == IF n < 0 THEN << "-" >> \o NatToStr(-n) ELSE NatToStr(n)

RECURSIVE Zeros(_)
Zeros(k) == IF k <= 0 THEN << >> ELSE << "0" >> \o Zeros(k - 1)

\* the width NanonisData pads the file number to
ZFillWidth == 4

\* str.zfill(width): zeros go after a leading sign
zfill(s, width) ==
    IF Len(s) >= width THEN s
    ELSE IF Len(s) > 0 /\ s[1] \in { "+", "-" }
         THEN << s[1] >> \o Zeros(width - Len(s)) \o Tail(s)
         ELSE Zeros(width - Len(s)) \o s

\* str.endswith(suffix)
endswith(s, suffix) ==
    /\ Len(suffix) <= Len(s)
    /\ SubSeq(s, Len(s) - Len(suffix) + 1, Len(s)) = suffix

\* the positions of character c in s
Positions(s, c) == { k \in 1..Len(s) : s[k] = c }

Max(S) == CHOOSE x \in S : \A y \in S : y <= x
Min(S) == CHOOSE x \in S : \A y \in S : x <= y

\* str.split(sep) for a one-character separator
RECURSIVE split(_, _)
split(s, sep) ==
    LET ps == Positions(s, sep)
    IN  IF ps = {} THEN << s >>
        ELSE LET k == Min(ps)
             IN  << SubSeq(s, 1, k - 1) >> \o split(SubSeq(s, k + 1, Len(s)), sep)

-----------------------------------------------------------------------------
(* os.path and glob *)

\* os.path.join(a, b) on POSIX
join(a, b) ==
    IF Len(b) > 0 /\ b[1] = "/" THEN b
    ELSE IF a = << >> \/ a[Len(a)] = "/" THEN a \o b
    ELSE a \o << "/" >> \o b

\* os.path.basename(p)
basename(p) ==
    LET ps == Positions(p, "/")
    IN  IF ps = {} THEN p ELSE SubSeq(p, Max(ps) + 1, Len(p))

\* os.path.dirname of a glob pattern: os.path.split strips the trailing
\* slashes of the head unless the head is all slashes
RECURSIVE RStripSlash(_)
RStripSlash(p) ==
    IF p = << >> \/ p[Len(p)] # "/" THEN p
    ELSE RStripSlash(SubSeq(p, 1, Len(p) - 1))

dirname(p) ==
    LET ps == Positions(p, "/")
    IN  IF ps = {} THEN << >>
        ELSE LET head     == SubSeq(p, 1, Max(ps))
                 stripped == RStripSlash(head)
             IN  IF stripped = << >> THEN head ELSE stripped

\* os.path.splitext(p)[1]: from the last dot of the last component, unless
\* only dots precede it there
splitext(p) ==
    LET b    == basename(p)
        dots == Positions(b, ".")
    IN  IF dots = {} THEN << >>
        ELSE LET k == Max(dots)
             IN  IF \E j \in 1..(k - 1) : b[j] # "." THEN SubSeq(b, k, Len(b))
                 ELSE << >>

\* fnmatch.fnmatchcase(name, pat) for patterns of literals, '*' and '?';
\* a '*' takes any k characters, and a literal after it has to be the next
RECURSIVE fnmatch(_, _)
fnmatch(name, pat) ==
    IF pat = << >> THEN name = << >>
    ELSE IF pat[1] = "*"
         THEN \/ Len(pat) = 1
              \/ \E k \in 0..Len(name) :
                    /\ \/ pat[2] \in { "*", "?" }
                       \/ k < Len(name) /\ name[k + 1] = pat[2]
                    /\ fnmatch(SubSeq(name, k + 1, Len(name)), Tail(pat))
    ELSE /\ name # << >>
         /\ (pat[1] = "?" \/ pat[1] = name[1])
         /\ fnmatch(Tail(name), Tail(pat))

\* glob's filter of a directory listing: the names matching pat, in listing
\* order; names starting with a dot only match a pattern starting with one
RECURSIVE SelectNames(_, _)
SelectNames(entries, pat) ==
    IF entries = << >> THEN << >>
    ELSE LET n == Head(entries).name
             hidden == Len(n) > 0 /\ n[1] = "." /\ ~(Len(pat) > 0 /\ pat[1] = ".")
         IN  (IF fnmatch(n, pat) /\ ~hidden THEN << n >> ELSE << >>)
             \o SelectNames(Tail(entries), pat)

-----------------------------------------------------------------------------
(* The file system: one directory, Root, holding the entries of dir *)

Root == << "/", "d" >>

\* glob.glob(pattern) for a pattern whose directory part has no wildcard:
\* the matching names in os.scandir order (glob does not sort), each joined
\* to the directory part of the pattern
RECURSIVE JoinAll(_, _)
JoinAll(d, names) ==
    IF names = << >> THEN << >>
    ELSE << join(d, Head(names)) >> \o JoinAll(d, Tail(names))

glob(listing, pat) ==
    LET d == dirname(pat)
    IN  IF RStripSlash(d) = Root
        THEN JoinAll(d, SelectNames(listing, basename(pat)))
        ELSE << >>

\* the entry of the listing stored at path p, if any
EntriesAt(listing, p) ==
    { k \in 1..Len(listing) : join(Root, listing[k].name) = p }

-----------------------------------------------------------------------------
(* NanonisData *)

NoData == [ fname |-> << >>, header |-> << >>, signals |-> {}, render |-> "none" ]

\* the extensions of file_handlers
EXT_SXM == << ".", "s", "x", "m" >>
EXT_DAT == << ".", "d", "a", "t" >>
EXT_3DS == << ".", "3", "d", "s" >>
\* the handler table without the grid-spectroscopy entry
file_handlers_no_3ds == { EXT_SXM, EXT_DAT }
file_handlers == { EXT_SXM, EXT_DAT, EXT_3DS }

\* nr.nanonis_sxm.Load / nanonis_dat.Load / nanonis_3ds.Load: the parsed
\* object of the file at filepath: its name, header mapping and signals
Load(listing, filepath) ==
    IF EntriesAt(listing, filepath) = {}
    THEN [ exc |-> "FileNotFoundError", data |-> NoData ]
    ELSE LET f == listing[CHOOSE k \in EntriesAt(listing, filepath) : TRUE]
         IN  [ exc  |-> "none",
               data |-> [ fname   |-> basename(filepath),
                          header  |-> f.header,
                          signals |-> f.signals,
                          render  |-> f.render ] ]

\* file_number arguments
NoneNum     == [ tag |-> "none", n |-> 0, s |-> << >> ]
IntNum(n)   == [ tag |-> "int",  n |-> n, s |-> << >> ]
StrNum(s)   == [ tag |-> "str",  n |-> 0, s |-> s ]

\* str(file_number).zfill(4)
number_str(fnum) ==
    zfill(IF fnum.tag = "int" THEN IntToStr(fnum.n) ELSE fnum.s, ZFillWidth)

\* the glob pattern of a file number and keyword
pattern(bp, fnum, kw) ==
    IF kw # << >>
    THEN join(bp, << "*" >> \o kw \o << "*", "_" >> \o number_str(fnum) \o << ".", "*" >>)
    ELSE join(bp, << "*", "_" >> \o number_str(fnum) \o << ".", "*" >>)

\* the lines printed when several files match
RECURSIVE FoundLines(_)
FoundLines(files) ==
    IF files = << >> THEN << >>
    ELSE << [ kind |-> "found", text |-> basename(Head(files)) ] >>
         \o FoundLines(Tail(files))

MultipleWarning(matching_files) ==
    IF Len(matching_files) > 1
    THEN << [ kind |-> "warning", text |-> << >> ] >>
         \o FoundLines(matching_files)
         \o << [ kind |-> "using", text |-> basename(matching_files[1]) ] >>
    ELSE << >>

\* the last of the matches instead of the first
LastMatch(matching_files) == matching_files[Len(matching_files)]

\* the file the resolver takes among the matches
FirstMatch(matching_files) == matching_files[1]

\* the handler dispatch on the extension of the resolved path
Dispatch(listing, filepath, printed) ==
    LET extension == splitext(filepath)
    IN  IF extension \in file_handlers
        THEN LET r == Load(listing, filepath)
             IN  [ exc      |-> r.exc,
                   msg      |-> "",
                   filepath |-> filepath,
                   printed  |-> printed,
                   calls    |-> << [ ext |-> extension, path |-> filepath ] >>,
                   data     |-> r.data ]
        ELSE [ exc      |-> "ValueError",
               msg      |-> "Unsupported file extension",
               filepath |-> filepath,
               printed  |-> printed,
               calls    |-> << >>,
               data     |-> NoData ]

\* NanonisData.__init__(base_path, file_number, keyword)
NanonisData(listing, bp, fnum, kw) ==
    IF fnum.tag \in { "int", "str" }
    THEN LET matching_files == glob(listing, pattern(bp, fnum, kw))
         IN  IF matching_files = << >>
             THEN [ exc      |-> "ValueError",
                    msg      |-> "No file found",
                    filepath |-> << >>,
                    printed  |-> << >>,
                    calls    |-> << >>,
                    data     |-> NoData ]
             ELSE Dispatch(listing, FirstMatch(matching_files),
                           MultipleWarning(matching_files))
    ELSE Dispatch(listing, bp, << >>)

-----------------------------------------------------------------------------
(* Parameter extraction *)

\* a format_date that does not insist on exactly three parts: with more
\* than two dots it reverses the first three parts and drops the rest
format_date_sxm_nocheck(date_str) ==
    LET parts == split(date_str, ".")
    IN  IF Len(parts) >= 3
        THEN parts[3] \o << "." >> \o parts[2] \o << "." >> \o parts[1]
        ELSE date_str

\* the string s with its parts around the two dots reversed, or s itself
\* when it does not split into exactly three parts (the unpacking raises
\* and the bare except returns the original)
format_date_sxm(date_str) ==
    LET parts == split(date_str, ".")
    IN  IF Len(parts) = 3
        THEN parts[3] \o << "." >> \o parts[2] \o << "." >> \o parts[1]
        ELSE date_str

\* "d.m.y time" becomes "y.m.d_time"; anything else is returned as it is
format_date_dat(date_str) ==
    LET halves == split(date_str, " ")
    IN  IF Len(halves) = 2
        THEN LET parts == split(halves[1], ".")
             IN  IF Len(parts) = 3
                 THEN parts[3] \o << "." >> \o parts[2] \o << "." >> \o parts[1]
                      \o << "_" >> \o halves[2]
                 ELSE date_str
        ELSE date_str

NoParams == [ exc |-> "KeyError", params |-> << >> ]

\* the header keys get_sxm_parameters reads
SxmKeys == { "scan_pixels", "scan_range", "scan_dir", "scan_angle",
             "bias>bias (v)", "z-controller>setpoint", "rec_time", "rec_date" }

\* get_sxm_parameters(data); aspect_ratio is kept as the fraction
\* (pixels[0] * range[1]) / (pixels[1] * range[0]); a division by zero
\* raises after every key has been read
get_sxm_parameters(data) ==
    LET h == data.header
    IN  IF ~(SxmKeys \subseteq DOMAIN h) THEN NoParams
        ELSE IF h["scan_pixels"][2] = 0 \/ h["scan_range"][1] = 0
        THEN [ exc |-> "ZeroDivisionError", params |-> << >> ]
        ELSE [ exc    |-> "none",
               params |->
                   ("pixels"    :> h["scan_pixels"]) @@
                   ("range"     :> h["scan_range"]) @@
                   ("direction" :> h["scan_dir"]) @@
                   ("angle"     :> h["scan_angle"]) @@
                   ("bias"      :> h["bias>bias (v)"]) @@
                   ("current"   :> h["z-controller>setpoint"]) @@
                   ("scan_time" :> h["rec_time"]) @@
                   ("scan_date" :> format_date_sxm(h["rec_date"])) @@
                   ("aspect_ratio" :>
                       << h["scan_pixels"][1] * h["scan_range"][2],
                          h["scan_pixels"][2] * h["scan_range"][1] >>) ]

\* the header keys the two branches of get_dat_parameters read
DatZKeys == { "Bias>Bias (V)", "Z-Controller>Setpoint",
              "Bias Spectroscopy>Number of sweeps",
              "Z Spectroscopy>Initial Z-offset (m)",
              "Z Spectroscopy>Sweep distance (m)",
              "Z Spectroscopy>Number of sweeps", "Comment01", "Saved Date" }

DatBiasKeys == { "Bias>Bias (V)", "Z-Controller>Setpoint",
                 "Bias Spectroscopy>Sweep Start (V)",
                 "Bias Spectroscopy>Sweep End (V)",
                 "Bias Spectroscopy>Number of sweeps", "Comment01", "Saved Date" }

\* the branch chosen by the header instead of the signals
IsZSweepByHeader(data) == "Z Spectroscopy>Sweep distance (m)" \in DOMAIN data.header

\* the test that selects the Z-sweep branch
IsZSweep(data) == "Z rel (m)" \in data.signals

\* get_dat_parameters(data)
get_dat_parameters(data) ==
    LET h == data.header
    IN  IF IsZSweep(data)
        THEN IF ~(DatZKeys \subseteq DOMAIN h) THEN NoParams
             ELSE [ exc    |-> "none",
                    params |->
                        ("bias"       :> h["Bias>Bias (V)"]) @@
                        ("current"    :> h["Z-Controller>Setpoint"]) @@
                        ("offset"     :> h["Z Spectroscopy>Initial Z-offset (m)"]) @@
                        ("sweep_z"    :> h["Z Spectroscopy>Sweep distance (m)"]) @@
                        ("sweep_num"  :> h["Z Spectroscopy>Number of sweeps"]) @@
                        ("comment"    :> h["Comment01"]) @@
                        ("saved_date" :> format_date_dat(h["Saved Date"])) ]
        ELSE IF ~(DatBiasKeys \subseteq DOMAIN h) THEN NoParams
             ELSE [ exc    |-> "none",
                    params |->
                        ("bias"        :> h["Bias>Bias (V)"]) @@
                        ("current"     :> h["Z-Controller>Setpoint"]) @@
                        ("sweep_start" :> h["Bias Spectroscopy>Sweep Start (V)"]) @@
                        ("sweep_end"   :> h["Bias Spectroscopy>Sweep End (V)"]) @@
                        ("sweep_num"   :> h["Bias Spectroscopy>Number of sweeps"]) @@
                        ("comment"     :> h["Comment01"]) @@
                        ("saved_date"  :> format_date_dat(h["Saved Date"])) ]

\* get_3ds_parameters(data): the empty mapping
get_3ds_parameters(data) == [ exc |-> "none", params |-> << >> ]

\* get_scan_parameters(data): the extractor of the file type
get_scan_parameters(data) ==
    IF endswith(data.fname, EXT_SXM) THEN get_sxm_parameters(data)
    ELSE IF endswith(data.fname, EXT_DAT) THEN get_dat_parameters(data)
    ELSE IF endswith(data.fname, EXT_3DS) THEN get_3ds_parameters(data)
    ELSE [ exc |-> "ValueError", params |-> << >> ]

-----------------------------------------------------------------------------
(* Captions *)

\* the white space float() ignores around the number.  The strings of the
\* model are ASCII, as the header values the instrument writes are: the
\* spaces and digits outside ASCII that float() also takes are not characters
\* of the model.
Whitespace == { " ", "\t", "\n", "\r", "\f", "" }

RECURSIVE LStrip(_)
LStrip(s) == IF s # << >> /\ s[1] \in Whitespace THEN LStrip(Tail(s)) ELSE s

RECURSIVE RStrip(_)
RStrip(s) == IF s # << >> /\ s[Len(s)] \in Whitespace
             THEN RStrip(SubSeq(s, 1, Len(s) - 1)) ELSE s

UpperLetters == << "A", "B", "C", "D", "E", "F", "G", "H", "I", "J", "K", "L", "M",
                   "N", "O", "P", "Q", "R", "S", "T", "U", "V", "W", "X", "Y", "Z" >>
LowerLetters == << "a", "b", "c", "d", "e", "f", "g", "h", "i", "j", "k", "l", "m",
                   "n", "o", "p", "q", "r", "s", "t", "u", "v", "w", "x", "y", "z" >>

\* the string in lower case
Lower(s) ==
    [ k \in 1..Len(s) |->
        IF \E n \in 1..26 : UpperLetters[n] = s[k]
        THEN LowerLetters[CHOOSE n \in 1..26 : UpperLetters[n] = s[k]]
        ELSE s[k] ]

\* a run of digits; single underscores may stand between two digits
AllDigits(s) ==
    /\ s # << >>
    /\ \A k \in 1..Len(s) :
          \/ IsDigit(s[k])
          \/ /\ s[k] = "_"
             /\ 1 < k /\ k < Len(s)
             /\ IsDigit(s[k - 1]) /\ IsDigit(s[k + 1])

\* digit runs around at most one dot, at least one of them not empty
MantissaOk(m) ==
    LET dots == Positions(m, ".")
    IN  \/ dots = {} /\ AllDigits(m)
        \/ /\ Cardinality(dots) = 1
           /\ LET k == Max(dots)
                  a == SubSeq(m, 1, k - 1)
                  b == SubSeq(m, k + 1, Len(m))
              IN  /\ a = << >> \/ AllDigits(a)
                  /\ b = << >> \/ AllDigits(b)
                  /\ a # << >> \/ b # << >>

ExponentOk(e) ==
    AllDigits(IF e # << >> /\ e[1] \in { "+", "-" } THEN Tail(e) ELSE e)

\* whether float(s) accepts the string s: an optionally signed decimal
\* number with an optional exponent, or inf / infinity / nan in any case,
\* white space around it ignored
FloatOk(s) ==
    LET t  == RStrip(LStrip(s))
        u  == IF t # << >> /\ t[1] \in { "+", "-" } THEN Tail(t) ELSE t
        es == Positions(u, "e") \cup Positions(u, "E")
    IN  \/ Len(u) \in { 3, 8 } /\ Lower(u) \in { << "i", "n", "f" >>, << "n", "a", "n" >>,
                           << "i", "n", "f", "i", "n", "i", "t", "y" >> }
        \/ es = {} /\ MantissaOk(u)
        \/ /\ Cardinality(es) = 1
           /\ LET k == Max(es)
              IN  /\ MantissaOk(SubSeq(u, 1, k - 1))
                  /\ ExponentOk(SubSeq(u, k + 1, Len(u)))

\* the caption of a slide: which format wrote it and the date it shows
\* (the numbers' formatting is not modelled; float() failing is)
Caption(fmt, date) == [ fmt |-> fmt, date |-> date ]

\* get_sxm_info_text(params)
get_sxm_info_text(params) ==
    IF FloatOk(params["bias"]) /\ FloatOk(params["current"]) /\ FloatOk(params["angle"])
    THEN [ exc |-> "none", text |-> Caption("sxm", params["scan_date"]) ]
    ELSE [ exc |-> "ValueError", text |-> Caption("none", << >>) ]

\* get_dat_info_text(params)
get_dat_info_text(params) ==
    IF "sweep_z" \in DOMAIN params
    THEN IF FloatOk(params["bias"]) /\ FloatOk(params["current"])
         THEN [ exc |-> "none", text |-> Caption("dat_z", params["saved_date"]) ]
         ELSE [ exc |-> "ValueError", text |-> Caption("none", << >>) ]
    ELSE IF /\ FloatOk(params["bias"]) /\ FloatOk(params["current"])
            /\ FloatOk(params["sweep_start"]) /\ FloatOk(params["sweep_end"])
         THEN [ exc |-> "none", text |-> Caption("dat_bias", params["saved_date"]) ]
         ELSE [ exc |-> "ValueError", text |-> Caption("none", << >>) ]

\* get_3ds_info_text(params)
get_3ds_info_text(params) == [ exc |-> "none", text |-> Caption("3ds", << >>) ]

-----------------------------------------------------------------------------
(* Plots: the image buffers each process_*_file returns.  data.render is   *)
(* the outcome of the plotting collaborator on the file's arrays.          *)

process_sxm_file(data) ==
    LET p == get_scan_parameters(data)
    IN  IF p.exc # "none" THEN [ exc |-> p.exc, images |-> << >> ]
        ELSE IF data.render # "ok" THEN [ exc |-> data.render, images |-> << >> ]
        ELSE IF "LI_Demod_1_X" \in data.signals
             THEN [ exc |-> "none", images |-> << "topography", "differentiated", "didv_map" >> ]
             ELSE [ exc |-> "none", images |-> << "topography", "differentiated" >> ]

process_dat_file(data) ==
    LET p == get_dat_parameters(data)
    IN  IF p.exc # "none" THEN [ exc |-> p.exc, images |-> << >> ]
        ELSE IF data.render # "ok" THEN [ exc |-> data.render, images |-> << >> ]
        ELSE IF "sweep_z" \in DOMAIN p.params
             THEN [ exc |-> "none", images |-> << "iz_linear", "iz_log" >> ]
             ELSE [ exc |-> "none", images |-> << "didv_scaled", "didv_normalized", "iv_raw" >> ]

process_3ds_file(data) ==
    IF data.render # "ok" THEN [ exc |-> data.render, images |-> << >> ]
    ELSE [ exc |-> "none", images |-> << "placeholder" >> ]

-----------------------------------------------------------------------------
(* add_slide *)

TitlePrefix == << "F", "i", "l", "e", ":", " " >>

\* the slide as add_slide creates it: the layout's title, nothing else
NewSlide(data) ==
    [ title |-> TitlePrefix \o data.fname, pictures |-> << >>, textboxes |-> << >> ]

\* the .dat branches of the unpacking exchanged: three buffers for a
\* Z-sweep, two for a bias sweep
Unpacked_dat_swapped(data, params) ==
    IF endswith(data.fname, EXT_SXM)
    THEN IF "LI_Demod_1_X" \in data.signals THEN 3 ELSE 2
    ELSE IF "sweep_z" \in DOMAIN params THEN 3 ELSE 2

\* the number of buffers add_slide unpacks the plots into
Unpacked(data, params) ==
    IF endswith(data.fname, EXT_SXM)
    THEN IF "LI_Demod_1_X" \in data.signals THEN 3 ELSE 2
    ELSE IF "sweep_z" \in DOMAIN params THEN 2 ELSE 3

\* the .sxm and .dat branches after the parameters were read: unpack the
\* plots, place them, build the caption, add the text box.  The slide is
\* already in the presentation, so an exception leaves it there as it is.
PlaceAll(slides, slide, want, r, t) ==
    IF r.exc # "none" THEN [ prs |-> Append(slides, slide), exc |-> r.exc ]
    ELSE IF Len(r.images) # want
         THEN [ prs |-> Append(slides, slide), exc |-> "ValueError" ]
    ELSE IF t.exc # "none"
         THEN [ prs |-> Append(slides, [ slide EXCEPT !.pictures = r.images ]),
                exc |-> t.exc ]
    ELSE [ prs |-> Append(slides, [ slide EXCEPT !.pictures = r.images,
                                                 !.textboxes = << t.text >> ]),
           exc |-> "none" ]

\* add_slide with the slide added to the presentation only once it is
\* complete: a failing call leaves no slide behind
add_slide_late(slides, data) ==
    LET slide == NewSlide(data)
        done  == IF endswith(data.fname, EXT_SXM)
                 THEN PlaceAll(slides, slide,
                               IF "LI_Demod_1_X" \in data.signals THEN 3 ELSE 2,
                               process_sxm_file(data),
                               get_sxm_info_text(get_scan_parameters(data).params))
                 ELSE IF endswith(data.fname, EXT_DAT)
                 THEN PlaceAll(slides, slide,
                               IF IsZSweep(data) THEN 2 ELSE 3,
                               process_dat_file(data),
                               get_dat_info_text(get_dat_parameters(data).params))
                 ELSE [ prs |-> Append(slides, [ slide EXCEPT !.textboxes =
                                  << get_3ds_info_text(<< >>).text >> ]),
                        exc |-> process_3ds_file(data).exc ]
    IN  IF done.exc = "none" THEN done ELSE [ prs |-> slides, exc |-> done.exc ]

\* add_slide(data) on the presentation `slides`
add_slide(slides, data) ==
    LET slide == NewSlide(data)
    IN  IF endswith(data.fname, EXT_SXM)
        THEN LET p == get_scan_parameters(data)
             IN  IF p.exc # "none" THEN [ prs |-> Append(slides, slide), exc |-> p.exc ]
                 ELSE PlaceAll(slides, slide, Unpacked(data, p.params),
                               process_sxm_file(data), get_sxm_info_text(p.params))
        ELSE IF endswith(data.fname, EXT_DAT)
        THEN LET p == get_dat_parameters(data)
             IN  IF p.exc # "none" THEN [ prs |-> Append(slides, slide), exc |-> p.exc ]
                 ELSE PlaceAll(slides, slide, Unpacked(data, p.params),
                               process_dat_file(data), get_dat_info_text(p.params))
        ELSE IF endswith(data.fname, EXT_3DS)
        THEN LET p == get_scan_parameters(data)
                 t == get_3ds_info_text(p.params)
                 r == process_3ds_file(data)
             IN  IF r.exc # "none" THEN [ prs |-> Append(slides, slide), exc |-> r.exc ]
                 ELSE [ prs |-> Append(slides, [ slide EXCEPT !.textboxes = << t.text >> ]),
                        exc |-> "none" ]
        ELSE [ prs |-> Append(slides, slide), exc |-> "UnboundLocalError" ]

-----------------------------------------------------------------------------
(* The files a directory may hold.  A header value is the string the        *)
(* instrument wrote, except scan_pixels and scan_range, which the parser   *)
(* turns into pairs of numbers (the range is in nm here).                  *)

EmptyHeader == [ k \in {} |-> << >> ]

S_0_5    == << "0", ".", "5" >>
S_1Em10  == << "1", "E", "-", "1", "0" >>
S_n_a    == << "n", "/", "a" >>
S_date   == << "0", "5", ".", "0", "3", ".", "2", "0", "2", "4" >>
S_time   == << "1", "2", ":", "0", "0" >>
S_saved  == S_date \o << " " >> \o S_time

SxmHeader(bias) ==
    ("scan_pixels" :> << 512, 256 >>) @@ ("scan_range" :> << 100, 50 >>) @@
    ("scan_dir" :> << "u", "p" >>) @@ ("scan_angle" :> << "0" >>) @@
    ("bias>bias (v)" :> bias) @@ ("z-controller>setpoint" :> S_1Em10) @@
    ("rec_time" :> S_time) @@ ("rec_date" :> S_date)

GoodSxmHeader    == SxmHeader(S_0_5)
BadBiasSxmHeader == SxmHeader(S_n_a)

\* scans of no lines and of no width
ZeroPixelsSxmHeader == [ GoodSxmHeader EXCEPT !["scan_pixels"] = << 512, 0 >> ]
ZeroRangeSxmHeader  == [ GoodSxmHeader EXCEPT !["scan_range"] = << 0, 50 >> ]

GoodBiasHeader ==
    ("Bias>Bias (V)" :> S_0_5) @@ ("Z-Controller>Setpoint" :> S_1Em10) @@
    ("Bias Spectroscopy>Sweep Start (V)" :> << "-", "1" >>) @@
    ("Bias Spectroscopy>Sweep End (V)" :> << "1" >>) @@
    ("Bias Spectroscopy>Number of sweeps" :> << "2" >>) @@
    ("Comment01" :> << >>) @@ ("Saved Date" :> S_saved)

GoodZHeader ==
    ("Bias>Bias (V)" :> S_0_5) @@ ("Z-Controller>Setpoint" :> S_1Em10) @@
    ("Bias Spectroscopy>Number of sweeps" :> << "2" >>) @@
    ("Z Spectroscopy>Initial Z-offset (m)" :> << "0" >>) @@
    ("Z Spectroscopy>Sweep distance (m)" :> << "1", "E", "-", "9" >>) @@
    ("Z Spectroscopy>Number of sweeps" :> << "1" >>) @@
    ("Comment01" :> << >>) @@ ("Saved Date" :> S_saved)

NoCommentBiasHeader ==
    [ k \in (DOMAIN GoodBiasHeader) \ { "Comment01" } |-> GoodBiasHeader[k] ]

F_Au10_sxm == [ name |-> << "A", "u", "_", "0", "0", "1", "0", ".", "s", "x", "m" >>,
    header |-> GoodSxmHeader, signals |-> { "Z" }, render |-> "ok" ]
F_Au11_sxm == [ name |-> << "A", "u", "_", "0", "0", "1", "1", ".", "s", "x", "m" >>,
    header |-> GoodSxmHeader, signals |-> { "Z", "LI_Demod_1_X" }, render |-> "ok" ]
F_Si10_dat == [ name |-> << "S", "i", "_", "0", "0", "1", "0", ".", "d", "a", "t" >>,
    header |-> GoodBiasHeader, signals |-> { "Bias calc (V)", "Current (A)" }, render |-> "ok" ]
F_Au12_dat == [ name |-> << "A", "u", "_", "0", "0", "1", "2", ".", "d", "a", "t" >>,
    header |-> GoodZHeader, signals |-> { "Z rel (m)", "Current (A)" }, render |-> "ok" ]
F_Si11_3ds == [ name |-> << "S", "i", "_", "0", "0", "1", "1", ".", "3", "d", "s" >>,
    header |-> EmptyHeader, signals |-> {}, render |-> "ok" ]
F_Au12_txt == [ name |-> << "A", "u", "_", "0", "0", "1", "2", ".", "t", "x", "t" >>,
    header |-> EmptyHeader, signals |-> {}, render |-> "ok" ]
F_11_sxm == [ name |-> << "0", "0", "1", "1", ".", "s", "x", "m" >>,
    header |-> GoodSxmHeader, signals |-> { "Z" }, render |-> "ok" ]
F_Si12_sxm == [ name |-> << "S", "i", "_", "0", "0", "1", "2", ".", "s", "x", "m" >>,
    header |-> BadBiasSxmHeader, signals |-> { "Z" }, render |-> "ok" ]
F_Ag11_dat == [ name |-> << "A", "g", "_", "0", "0", "1", "1", ".", "d", "a", "t" >>,
    header |-> NoCommentBiasHeader, signals |-> { "Bias calc (V)", "Current (A)" }, render |-> "ok" ]
F_Ag10_sxm == [ name |-> << "A", "g", "_", "0", "0", "1", "0", ".", "s", "x", "m" >>,
    header |-> GoodSxmHeader, signals |-> { "Z" }, render |-> "RuntimeError" ]

F_Ag12_sxm == [ name |-> << "A", "g", "_", "0", "0", "1", "2", ".", "s", "x", "m" >>,
    header |-> GoodSxmHeader, signals |-> { "Z" }, render |-> "UnicodeDecodeError" ]

Files == { F_Ag12_sxm, F_Au10_sxm, F_Au11_sxm, F_Si10_dat, F_Au12_dat, F_Si11_3ds, F_Au12_txt, F_11_sxm, F_Si12_sxm, F_Ag11_dat, F_Ag10_sxm }

\* the most entries a directory holds
MaxFiles == 2

\* the file numbers of a run: 10 .. 10 + NumSpan (the files are numbered 10 to 12)
NumSpan == 2
Nums == 10..(10 + NumSpan)

\* the listings of the directories of at most MaxFiles files, in every order
\* os.scandir may give them
Listings ==
    { l \in UNION { [1..n -> Files] : n \in 0..MaxFiles } :
        \A a, b \in 1..Len(l) : a # b => l[a].name # l[b].name }

S_Au == << "A", "u" >>
Keywords == { << >>, S_Au }

\* the keywords of a single construction: also one with a glob wildcard
S_A_any == << "A", "?" >>
LoadKeywords == Keywords \cup { S_A_any }

BasePaths == { Root, Root \o << "/" >> }

S_out == << "o", ".", "p", "p", "t", "x" >>

-----------------------------------------------------------------------------
(* generate_ppt: the batch run *)

NoLoad == [ exc |-> "none", msg |-> "", filepath |-> << >>, printed |-> << >>,
            calls |-> << >>, data |-> NoData ]
NoArg  == [ kind |-> "none", s |-> << >>, data |-> NoData ]
NoRet  == << >>

Line(kind, text) == [ kind |-> kind, text |-> text ]

Init ==
    /\ dir \in Listings
    /\ base_path \in BasePaths
    /\ keyword \in Keywords
    /\ start_num \in Nums
    /\ end_num \in Nums
    /\ output_filename = S_out
    /\ file_number = NoneNum
    /\ i = start_num
    /\ pc = "loop"
    /\ prs = << >>
    /\ attempted = << >>
    /\ log = << Line("generating", << >>) >>
    /\ calls = << >>
    /\ saved = << >>
    /\ exc = "none"
    /\ loaded = NoLoad
    /\ arg = NoArg
    /\ ret = NoRet

\* the load of the loop body at index i
LoadAt == NanonisData(dir, base_path, IntNum(i), keyword)

\* ValueError and its subclasses among the built-in exceptions
ValueErrors == { "ValueError", "UnicodeError", "UnicodeDecodeError",
                 "UnicodeEncodeError", "UnicodeTranslateError" }

\* an except clause of another exception type: ValueError is not caught
CaughtNone(e) == FALSE

\* the exceptions `except ValueError` catches: ValueError and its subclasses
Caught(e) == e \in ValueErrors

InLoop == pc = "loop" /\ i <= end_num

Config == << dir, base_path, keyword, start_num, end_num, output_filename,
             file_number, arg, ret >>

\* NanonisData raised ValueError: print the skip and continue
LoadSkipped ==
    /\ InLoop
    /\ LET r == LoadAt
       IN  /\ r.exc # "none" /\ Caught(r.exc)
           /\ loaded' = r
           /\ attempted' = Append(attempted, i)
           /\ calls' = calls \o r.calls
           /\ log' = log \o r.printed \o << Line("skip", IntToStr(i)) >>
           /\ i' = i + 1
    /\ UNCHANGED << Config, pc, prs, saved, exc >>

\* the file was loaded and add_slide returned
SlideAdded ==
    /\ InLoop
    /\ LET r == LoadAt
           s == add_slide(prs, r.data)
       IN  /\ r.exc = "none" /\ s.exc = "none"
           /\ loaded' = r
           /\ attempted' = Append(attempted, i)
           /\ calls' = calls \o r.calls
           /\ log' = log \o r.printed \o << Line("processing", r.data.fname) >>
           /\ prs' = s.prs
           /\ i' = i + 1
    /\ UNCHANGED << Config, pc, saved, exc >>

\* the file was loaded and add_slide raised ValueError: the same except
\* clause catches it, with the slide add_slide began left in the document
SlideSkipped ==
    /\ InLoop
    /\ LET r == LoadAt
           s == add_slide(prs, r.data)
       IN  /\ r.exc = "none" /\ s.exc # "none" /\ Caught(s.exc)
           /\ loaded' = r
           /\ attempted' = Append(attempted, i)
           /\ calls' = calls \o r.calls
           /\ log' = log \o r.printed
                         \o << Line("processing", r.data.fname),
                               Line("skip", IntToStr(i)) >>
           /\ prs' = s.prs
           /\ i' = i + 1
    /\ UNCHANGED << Config, pc, saved, exc >>

\* an exception the except clause does not catch leaves generate_ppt
Aborted ==
    /\ InLoop
    /\ LET r == LoadAt
           s == add_slide(prs, r.data)
       IN  /\ IF r.exc # "none" THEN ~Caught(r.exc)
              ELSE s.exc # "none" /\ ~Caught(s.exc)
           /\ loaded' = r
           /\ attempted' = Append(attempted, i)
           /\ calls' = calls \o r.calls
           /\ log' = log \o r.printed
                         \o (IF r.exc = "none"
                             THEN << Line("processing", r.data.fname) >> ELSE << >>)
           /\ prs' = IF r.exc = "none" THEN s.prs ELSE prs
           /\ exc' = IF r.exc = "none" THEN s.exc ELSE r.exc
           /\ pc' = "raised"
    /\ UNCHANGED << Config, i, saved >>

S_PPT == << "P", "P", "T", "/" >>

\* save_path + output_filename
save_file(bp, fname) == (bp \o S_PPT) \o fname

\* after the loop: prs.save
Saved ==
    /\ pc = "loop" /\ i > end_num
    /\ saved' = Append(saved, [ path |-> save_file(base_path, output_filename),
                                slides |-> prs ])
    /\ log' = log \o << Line("saved", save_file(base_path, output_filename)) >>
    /\ pc' = "saved"
    /\ UNCHANGED << Config, i, prs, attempted, calls, exc, loaded >>

Next == LoadSkipped \/ SlideAdded \/ SlideSkipped \/ Aborted \/ Saved

Spec == Init /\ [][Next]_vars

-----------------------------------------------------------------------------
(* One construction of NanonisData, on any directory and arguments *)

\* base_path may also be the path of a file, for file_number = None
ExplicitPaths == { join(Root, F_Au10_sxm.name), join(Root, F_Au12_txt.name) }

FileNumbers == { NoneNum, StrNum(<< "1", "0" >>) } \cup { IntNum(n) : n \in Nums }

InitLoad ==
    /\ dir \in Listings
    /\ base_path \in BasePaths \cup ExplicitPaths
    /\ keyword \in LoadKeywords
    /\ file_number \in FileNumbers
    /\ start_num = 0 /\ end_num = 0 /\ i = 0
    /\ output_filename = << >>
    /\ pc = "new"
    /\ prs = << >> /\ attempted = << >> /\ saved = << >>
    /\ log = << >> /\ calls = << >>
    /\ exc = "none"
    /\ loaded = NoLoad
    /\ arg = NoArg
    /\ ret = NoRet

LoadResult == NanonisData(dir, base_path, file_number, keyword)

LoadFrame == << dir, base_path, keyword, start_num, end_num, output_filename,
                file_number, i, prs, attempted, saved, arg, ret >>

\* the constructor returned: the parsed fields are on the object
Constructed ==
    /\ pc = "new"
    /\ LET r == LoadResult
       IN  /\ r.exc = "none"
           /\ loaded' = r /\ calls' = r.calls /\ log' = r.printed
    /\ pc' = "constructed"
    /\ UNCHANGED << LoadFrame, exc >>

\* the constructor raised ValueError: no file, or no handler for the extension
ConstructRejected ==
    /\ pc = "new"
    /\ LET r == LoadResult
       IN  /\ r.exc = "ValueError"
           /\ loaded' = r /\ calls' = r.calls /\ log' = r.printed
           /\ exc' = r.exc
    /\ pc' = "raised"
    /\ UNCHANGED LoadFrame

\* the parser raised (the explicit path names no file)
ParserRaised ==
    /\ pc = "new"
    /\ LET r == LoadResult
       IN  /\ r.exc \notin { "none", "ValueError" }
           /\ loaded' = r /\ calls' = r.calls /\ log' = r.printed
           /\ exc' = r.exc
    /\ pc' = "raised"
    /\ UNCHANGED LoadFrame

NextLoad == Constructed \/ ConstructRejected \/ ParserRaised

SpecLoad == InitLoad /\ [][NextLoad]_vars

-----------------------------------------------------------------------------
(* One call of a parameter extractor *)

\* the longest date string tried
MaxDateLen == 5

DateChars == { "1", "2", ".", " " }

DateStrings ==
    UNION { [1..n -> DateChars] : n \in 0..MaxDateLen } \cup { S_date, S_saved }

AllDatHeader == GoodBiasHeader @@ GoodZHeader

\* .dat records: any of the header keys present, any of the signals
DatRecords ==
    { [ fname   |-> << "x" >> \o EXT_DAT,
        header  |-> [ k \in ks |-> AllDatHeader[k] ],
        signals |-> sg,
        render  |-> "ok" ] :
      ks \in SUBSET (DOMAIN AllDatHeader),
      sg \in SUBSET { "Z rel (m)", "Current (A)", "Bias calc (V)" } }

InitParams ==
    /\ arg \in { [ kind |-> "date", s |-> d, data |-> NoData ] : d \in DateStrings }
          \cup { [ kind |-> "dat", s |-> << >>, data |-> r ] : r \in DatRecords }
    /\ ret = NoRet
    /\ pc = "call"
    /\ dir = << >> /\ base_path = << >> /\ keyword = << >>
    /\ start_num = 0 /\ end_num = 0 /\ i = 0
    /\ output_filename = << >>
    /\ file_number = NoneNum
    /\ prs = << >> /\ attempted = << >> /\ saved = << >>
    /\ log = << >> /\ calls = << >>
    /\ exc = "none"
    /\ loaded = NoLoad

ParamsFrame == << dir, base_path, keyword, start_num, end_num, output_filename,
                  file_number, i, prs, attempted, saved, log, calls, loaded, arg >>

\* format_date of get_sxm_parameters
FormatDateSxm ==
    /\ pc = "call" /\ arg.kind = "date"
    /\ ret' = format_date_sxm(arg.s)
    /\ pc' = "ret_sxm_date"
    /\ UNCHANGED << ParamsFrame, exc >>

\* format_date of get_dat_parameters
FormatDateDat ==
    /\ pc = "call" /\ arg.kind = "date"
    /\ ret' = format_date_dat(arg.s)
    /\ pc' = "ret_dat_date"
    /\ UNCHANGED << ParamsFrame, exc >>

\* get_dat_parameters returned its mapping
DatParameters ==
    /\ pc = "call" /\ arg.kind = "dat"
    /\ get_dat_parameters(arg.data).exc = "none"
    /\ ret' = get_dat_parameters(arg.data).params
    /\ pc' = "ret_dat_params"
    /\ UNCHANGED << ParamsFrame, exc >>

\* get_dat_parameters raised KeyError on a missing header key
DatParametersRaised ==
    /\ pc = "call" /\ arg.kind = "dat"
    /\ get_dat_parameters(arg.data).exc # "none"
    /\ exc' = get_dat_parameters(arg.data).exc
    /\ pc' = "raised"
    /\ UNCHANGED << ParamsFrame, ret >>

NextParams == FormatDateSxm \/ FormatDateDat \/ DatParameters \/ DatParametersRaised

SpecParams == InitParams /\ [][NextParams]_vars

-----------------------------------------------------------------------------
(* One call of add_slide on a loaded .sxm or .dat record *)

\* .sxm records: any of the header keys present, the bias well formed or
\* not, the scan empty or not, any of the signals, the plotting succeeding or not
SxmRecords ==
    { [ fname   |-> << "x" >> \o EXT_SXM,
        header  |-> [ k \in ks |-> h[k] ],
        signals |-> sg,
        render  |-> rd ] :
      ks \in SUBSET SxmKeys,
      h  \in { GoodSxmHeader, BadBiasSxmHeader,
                ZeroPixelsSxmHeader, ZeroRangeSxmHeader },
      sg \in SUBSET { "Z", "LI_Demod_1_X", "LI_Demod_1_Y" },
      rd \in { "ok", "RuntimeError", "UnicodeDecodeError" } }

\* .dat records as DatRecords, the plotting succeeding or not
DatPlotRecords ==
    { [ r EXCEPT !.render = rd ] : r \in DatRecords, rd \in { "ok", "RuntimeError", "UnicodeDecodeError" } }

InitSlide ==
    /\ arg \in { [ kind |-> "record", s |-> << >>, data |-> r ] :
                 r \in SxmRecords \cup DatPlotRecords }
    /\ ret = NoRet
    /\ pc = "call"
    /\ dir = << >> /\ base_path = << >> /\ keyword = << >>
    /\ start_num = 0 /\ end_num = 0 /\ i = 0
    /\ output_filename = << >>
    /\ file_number = NoneNum
    /\ prs = << >> /\ attempted = << >> /\ saved = << >>
    /\ log = << >> /\ calls = << >>
    /\ exc = "none"
    /\ loaded = NoLoad

SlideFrame == << dir, base_path, keyword, start_num, end_num, output_filename,
                 file_number, i, attempted, saved, log, calls, loaded, arg, ret >>

\* add_slide returned: the slide is complete
SlideBuilt ==
    /\ pc = "call"
    /\ LET s == add_slide(prs, arg.data)
       IN  s.exc = "none" /\ prs' = s.prs
    /\ pc' = "returned"
    /\ UNCHANGED << SlideFrame, exc >>

\* add_slide raised: the slide it had begun stays in the presentation
SlideRaised ==
    /\ pc = "call"
    /\ LET s == add_slide(prs, arg.data)
       IN  s.exc # "none" /\ prs' = s.prs /\ exc' = s.exc
    /\ pc' = "raised"
    /\ UNCHANGED SlideFrame

NextSlide == SlideBuilt \/ SlideRaised

SpecSlide == InitSlide /\ [][NextSlide]_vars

-----------------------------------------------------------------------------
(* Properties of the batch run (Spec) *)

LoadOf(n) == NanonisData(dir, base_path, IntNum(n), keyword)

\* the titles a run over a..b is to give: one per index that loads, ascending
RECURSIVE LoadedTitles(_, _)
LoadedTitles(a, b) ==
    IF a > b THEN << >>
    ELSE LET r == LoadOf(a)
         IN  (IF r.exc = "none"
              THEN << TitlePrefix \o r.data.fname >> ELSE << >>)
             \o LoadedTitles(a + 1, b)

Titles(slides) == [ k \in 1..Len(slides) |-> slides[k].title ]

\* C1: when generate_ppt completes, the saved document holds exactly one
\* slide per index of start_num..end_num whose file NanonisData loaded and
\* none for any other index, in ascending index order, each titled with the
\* file name of the record loaded for its index.
C1_OneSlidePerLoadedFile ==
    /\ pc = "loop" => Titles(prs) = LoadedTitles(start_num, i - 1)
    /\ pc = "saved" =>
          /\ Len(saved) = 1
          /\ Titles(saved[1].slides) = LoadedTitles(start_num, end_num)

\* indices 10..12 with no file for 11: two slides, for 10 and then 12
C1_Witness ==
    /\ pc = "saved" /\ start_num = 10 /\ end_num = 12
    /\ LoadOf(10).exc = "none" /\ LoadOf(11).exc = "ValueError" /\ LoadOf(12).exc = "none"
    /\ Len(saved[1].slides) = 2
    /\ saved[1].slides[1].title = TitlePrefix \o basename(LoadOf(10).filepath)
    /\ saved[1].slides[2].title = TitlePrefix \o basename(LoadOf(12).filepath)

\* the indices a..b in ascending order
Ascending(a, b) == [ k \in 1..(IF b >= a THEN b - a + 1 ELSE 0) |-> a + k - 1 ]

\* C2: a load failure at index i is caught at that index: the iteration
\* leaves the document unchanged and the loop goes on to i + 1; the indices
\* are attempted once each in ascending order whatever loads failed before;
\* the document is persisted once, after the last index, and a load failure
\* never leaves generate_ppt as an exception.
C2_LoadFailureSkipsIndex ==
    /\ [](/\ pc = "loop" => attempted = Ascending(start_num, i - 1)
          /\ Len(saved) <= 1
          /\ pc = "saved" => /\ attempted = Ascending(start_num, end_num)
                             /\ Len(saved) = 1
          /\ pc # "saved" => saved = << >>
          /\ pc = "raised" => loaded.exc = "none")
    /\ [][ (InLoop /\ LoadAt.exc = "ValueError") =>
              /\ prs' = prs
              /\ i' = i + 1
              /\ attempted' = Append(attempted, i)
              /\ pc' = "loop" /\ exc' = "none" /\ saved' = saved ]_vars

\* no file for 10, a file that loads for 11, an unsupported extension for
\* 12: both failures skipped, one slide, the run saved
C2_Witness ==
    /\ pc = "saved" /\ attempted = << 10, 11, 12 >>
    /\ LoadOf(10).exc = "ValueError" /\ LoadOf(10).msg = "No file found"
    /\ LoadOf(11).exc = "none"
    /\ LoadOf(12).exc = "ValueError"
    /\ LoadOf(12).msg = "Unsupported file extension"
    /\ Len(prs) = 1 /\ Len(saved) = 1

\* what add_slide raises on the file of index n
SlideExcOf(n) == add_slide(<< >>, LoadOf(n).data).exc

\* C3: every failure other than the loader's "no matching file" /
\* "unsupported extension" propagates out of generate_ppt and the document is
\* never persisted: a run that persisted its document met no failure inside
\* add_slide.
C3_EveryOtherFailurePropagates ==
    pc = "saved" =>
        \A n \in start_num..end_num :
            LoadOf(n).exc = "none" => SlideExcOf(n) = "none"

S_PPT_dir == << "P", "P", "T" >>

\* C7: the document is persisted at <base_path>/PPT/<output_filename>, the
\* subdirectory and the file name joined to base_path as path components,
\* whether or not base_path ends with a separator.
C7_SavePathIsJoined ==
    pc = "saved" =>
        saved[1].path = join(join(base_path, S_PPT_dir), output_filename)

\* C9: every slide of the document owns a title, 2 or 3 pictures and exactly
\* one caption text box, whatever the format and also after add_slide calls
\* that failed part-way.
C9_SlideShape ==
    \A k \in 1..Len(prs) :
        /\ Len(prs[k].title) > 0
        /\ Len(prs[k].pictures) \in { 2, 3 }
        /\ Len(prs[k].textboxes) = 1

-----------------------------------------------------------------------------
(* Properties of the resolver and the dispatch (SpecLoad) *)

\* t occurs in s at position k
Occurs(s, t, k) ==
    k >= 1 /\ k + Len(t) - 1 <= Len(s) /\ SubSeq(s, k, k + Len(t) - 1) = t

Contains(s, t) == \E k \in 1..(Len(s) + 1) : Occurs(s, t, k)

\* the four digits of n
Pad4(n) == << Digits[((n \div 1000) % 10) + 1], Digits[((n \div 100) % 10) + 1],
              Digits[((n \div 10) % 10) + 1], Digits[(n % 10) + 1] >>

RECURSIVE StrVal(_)
StrVal(t) == IF t = << >> THEN 0
             ELSE 10 * StrVal(SubSeq(t, 1, Len(t) - 1))
                  + (CHOOSE d \in 0..9 : Digits[d + 1] = t[Len(t)])

\* the index a file number stands for
IndexOf(fnum) == IF fnum.tag = "int" THEN fnum.n ELSE StrVal(fnum.s)

\* the name contains the four digits of the index, and the keyword
Embeds(name, kw, n) == Contains(name, Pad4(n)) /\ Contains(name, kw)

\* the name reads <..><kw><..>_<four digits>.<..> and starts with no dot;
\* the keyword is part of the glob pattern, so a '?' or '*' in it stands for
\* any character or run of characters of the name
HasForm(name, kw, n) ==
    /\ name[1] # "."
    /\ \E q \in 1..Len(name) :
          /\ Occurs(name, << "_" >> \o Pad4(n) \o << "." >>, q)
          /\ \E k \in 1..q : \E e \in (k - 1)..(q - 1) :
                 fnmatch(SubSeq(name, k, e), kw)

ByNumber == pc # "new" /\ file_number.tag # "none" /\ base_path \in BasePaths

Embedding == { k \in 1..Len(dir) : Embeds(dir[k].name, keyword, IndexOf(file_number)) }
Matching  == { k \in 1..Len(dir) : HasForm(dir[k].name, keyword, IndexOf(file_number)) }

PathOf(k) == Root \o << "/" >> \o dir[k].name

NoFileFound ==
    /\ loaded.exc = "ValueError" /\ loaded.msg = "No file found"
    /\ exc = "ValueError" /\ calls = << >> /\ loaded.data = NoData

\* C4: one file whose name embeds the padded index (and the keyword) is
\* selected; none means ValueError "No file found" and no parser invoked.
C4_EmbeddedIndexSelected ==
    ByNumber =>
        /\ Cardinality(Embedding) = 1 =>
              \A k \in Embedding : loaded.filepath = PathOf(k)
        /\ Embedding = {} => NoFileFound

\* the ASCII characters from the blank (32) to the underscore (95), and from
\* "a" (97) to the tilde (126)
AsciiLow == <<
    " ", "!", "\"", "#", "$", "%", "&", "'", "(", ")", "*", "+",
    ",", "-", ".", "/", "0", "1", "2", "3", "4", "5", "6", "7",
    "8", "9", ":", ";", "<", "=", ">", "?", "@", "A", "B", "C",
    "D", "E", "F", "G", "H", "I", "J", "K", "L", "M", "N", "O",
    "P", "Q", "R", "S", "T", "U", "V", "W", "X", "Y", "Z", "[",
    "\\", "]", "^", "_" >>
AsciiHigh == <<
    "a", "b", "c", "d", "e", "f", "g", "h", "i", "j", "k", "l",
    "m", "n", "o", "p", "q", "r", "s", "t", "u", "v", "w", "x",
    "y", "z", "{", "|", "}", "~" >>

\* ord(c) of an ASCII character of a file name
Ord(c) ==
    IF \E k \in 1..64 : AsciiLow[k] = c
    THEN 31 + (CHOOSE k \in 1..64 : AsciiLow[k] = c)
    ELSE 96 + (CHOOSE k \in 1..30 : AsciiHigh[k] = c)

\* s < t in Python's string order
RECURSIVE StrLess(_, _)
StrLess(s, t) ==
    IF t = << >> THEN FALSE
    ELSE IF s = << >> THEN TRUE
    ELSE IF s[1] # t[1] THEN Ord(s[1]) < Ord(t[1])
    ELSE StrLess(Tail(s), Tail(t))

\* the least of the matching paths in string order
LeastPath == CHOOSE p \in { PathOf(k) : k \in Matching } :
                 \A k \in Matching : p = PathOf(k) \/ StrLess(p, PathOf(k))

\* C5 as stated: with two or more matches the resolver selects the
\* lexicographically first matching path, warns with all the matches and
\* does not fail for the ambiguity.
C5_LexicographicFirstSelected ==
    (ByNumber /\ Cardinality(Matching) >= 2) =>
        /\ loaded.filepath = LeastPath
        /\ loaded.msg # "No file found"

\* the warning: its header, one line per match in listing order, the choice
RECURSIVE MatchLines(_)
MatchLines(k) ==
    IF k > Len(dir) THEN << >>
    ELSE (IF k \in Matching THEN << Line("found", dir[k].name) >> ELSE << >>)
         \o MatchLines(k + 1)

\* C5 amended: with two or more matches the resolver selects the first
\* matching path in the order glob returns them, which is the order the
\* directory lists its entries and not the lexicographic one; it warns with
\* all the matches and the one it uses, and does not fail for the ambiguity.
C5_FirstListedSelected ==
    (ByNumber /\ Cardinality(Matching) >= 2) =>
        /\ loaded.filepath = PathOf(Min(Matching))
        /\ log = << Line("warning", << >>) >> \o MatchLines(1)
                 \o << Line("using", dir[Min(Matching)].name) >>
        /\ loaded.msg # "No file found"
        /\ loaded.exc = "ValueError" => loaded.msg = "Unsupported file extension"

\* two matches, and the one listed first is not the lexicographically first
C5_Witness ==
    /\ ByNumber /\ pc = "constructed" /\ Cardinality(Matching) = 2
    /\ loaded.filepath = PathOf(Min(Matching))
    /\ loaded.filepath # LeastPath
    /\ Len(log) = 4

\* the extensions the loader has a parser for
SupportedExts == { EXT_SXM, EXT_DAT, EXT_3DS }

\* the extension of the path, when it is one of the supported ones
ExtsOf(p) == { e \in SupportedExts :
                 /\ endswith(basename(p), e)
                 /\ \E k \in 1..(Len(basename(p)) - Len(e)) : basename(p)[k] # "." }

Resolved == pc # "new" /\ loaded.msg # "No file found"

\* C6: for a resolved path exactly one parser is invoked, the one of the
\* path's extension among .sxm, .dat and .3ds; for any other extension no
\* parser is invoked, no field is copied and ValueError "Unsupported file
\* extension" is raised, an exception the batch loop catches.
C6_OneParserByExtension ==
    Resolved =>
        IF ExtsOf(loaded.filepath) # {}
        THEN /\ Len(calls) = 1
             /\ calls[1].ext \in ExtsOf(loaded.filepath)
             /\ calls[1].path = loaded.filepath
             /\ loaded.msg = ""
             /\ pc = "constructed" => loaded.data # NoData
        ELSE /\ calls = << >>
             /\ loaded.data = NoData
             /\ pc = "raised" /\ exc = "ValueError" /\ Caught(exc)
             /\ loaded.msg = "Unsupported file extension"

\* a file number resolved to a .txt file: rejected, nothing parsed or copied
C6_Witness ==
    /\ pc = "raised" /\ file_number.tag = "int"
    /\ loaded.filepath = join(Root, F_Au12_txt.name)
    /\ loaded.msg = "Unsupported file extension"
    /\ calls = << >> /\ loaded.data = NoData

-----------------------------------------------------------------------------
(* Properties of the parameter extractors (SpecParams) *)

\* C8: format_date of get_sxm_parameters returns day.month.year as
\* year.month.day ("05.03.2024" gives "2024.03.05"), returns every string
\* that does not hold exactly two dots unchanged, and always returns.
C8_DateReformatted ==
    pc = "ret_sxm_date" =>
        LET s    == arg.s
            dots == Positions(s, ".")
        IN  /\ Cardinality(dots) = 2 =>
                  ret = SubSeq(s, Max(dots) + 1, Len(s)) \o << "." >>
                        \o SubSeq(s, Min(dots) + 1, Max(dots) - 1) \o << "." >>
                        \o SubSeq(s, 1, Min(dots) - 1)
            /\ Cardinality(dots) # 2 => ret = s
            /\ s = S_date =>
                  ret = << "2", "0", "2", "4", ".", "0", "3", ".", "0", "5" >>
            /\ exc = "none"

\* "05.03.2024" was reformatted
C8_Witness ==
    /\ pc = "ret_sxm_date" /\ arg.s = S_date
    /\ ret = << "2", "0", "2", "4", ".", "0", "3", ".", "0", "5" >>

\* C10: get_dat_parameters returns the Z-sweep parameters (sweep_z and
\* offset, no sweep_start or sweep_end) exactly when the signals hold the
\* key 'Z rel (m)', and the bias-sweep parameters (sweep_start and
\* sweep_end, no sweep_z) exactly when they do not.
C10_BranchBySignalKey ==
    pc = "ret_dat_params" =>
        LET z    == "Z rel (m)" \in arg.data.signals
            keys == DOMAIN ret
        IN  /\ z <=> ({ "sweep_z", "offset" } \subseteq keys
                       /\ keys \cap { "sweep_start", "sweep_end" } = {})
            /\ ~z <=> ({ "sweep_start", "sweep_end" } \subseteq keys
                        /\ "sweep_z" \notin keys)

\* a record with the Z signal and the bias-sweep header keys as well
C10_Witness ==
    /\ pc = "ret_dat_params"
    /\ "Z rel (m)" \in arg.data.signals
    /\ "Bias Spectroscopy>Sweep Start (V)" \in DOMAIN arg.data.header
    /\ "sweep_z" \in DOMAIN ret /\ "sweep_start" \notin DOMAIN ret

-----------------------------------------------------------------------------
(* Properties of add_slide (SpecSlide) *)

\* what process_sxm_file / process_dat_file gives for the record
PlotsOf(data) ==
    IF endswith(data.fname, EXT_SXM) THEN process_sxm_file(data)
    ELSE process_dat_file(data)

\* the number of plots the record's branch has
PlotCount(data) ==
    IF endswith(data.fname, EXT_SXM)
    THEN IF "LI_Demod_1_X" \in data.signals THEN 3 ELSE 2
    ELSE IF "Z rel (m)" \in data.signals THEN 2 ELSE 3

\* the caption of the record fails in float()
CaptionFails(data) ==
    LET p == get_scan_parameters(data)
    IN  /\ p.exc = "none"
        /\ (IF endswith(data.fname, EXT_SXM) THEN get_sxm_info_text(p.params)
            ELSE get_dat_info_text(p.params)).exc = "ValueError"

\* C11: for every .sxm or .dat record whose plots are made, add_slide
\* unpacks and places as many image buffers as process_sxm_file /
\* process_dat_file returns: 3 for an .sxm record with 'LI_Demod_1_X' and 2
\* without, 2 for a .dat Z-sweep and 3 for a .dat bias sweep; the two never
\* disagree on the branch, so no ValueError comes from the unpacking.
C11_UnpackedAsReturned ==
    pc # "call" =>
        LET data == arg.data
            r    == PlotsOf(data)
        IN  /\ Len(prs) = 1
            /\ r.exc = "none" =>
                  /\ Len(r.images) = PlotCount(data)
                  /\ prs[1].pictures = r.images
            /\ r.exc # "none" => prs[1].pictures = << >> /\ exc = r.exc
            /\ exc = "ValueError" => CaptionFails(data)

\* a Z-sweep .dat record whose header also has the bias-sweep keys: two
\* plots returned, two placed, the slide complete
C11_Witness ==
    /\ pc = "returned"
    /\ endswith(arg.data.fname, EXT_DAT)
    /\ "Z rel (m)" \in arg.data.signals
    /\ "Bias Spectroscopy>Sweep Start (V)" \in DOMAIN arg.data.header
    /\ Len(process_dat_file(arg.data).images) = 2
    /\ Len(prs[1].pictures) = 2 /\ Len(prs[1].textboxes) = 1

====
